---- MODULE Spec2Model ----
(***************************************************************************)
(* State-machine model of reader.py (IFF timetable file readers).          *)
(*                                                                         *)
(* A reader owns a line source (_file), a pushback list (pushed_back) and, *)
(* while a record is being assembled, the locals of its __next__ method.   *)
(* The line source is an iterator: each _file.__next__() either hands out  *)
(* the next physical line or raises StopIteration, and once exhausted it   *)
(* stays exhausted.  Its content is not known in advance, so every read    *)
(* draws the line from the alphabet of the reader's file kind.             *)
(*                                                                         *)
(* A physical line is abstracted to                                        *)
(*   mark : its leading character                                          *)
(*   ok   : whether the whole line matches the regular expression that the *)
(*          reader's grammar associates with that leading character        *)
(*   val  : the field values captured from it                              *)
(*   idx  : its 1-based position in the source (identity of the line)      *)
(*   text : its characters, kept for the lines of a footnote file only     *)
(* Calendar dates are represented by their day ordinal (date.toordinal()), *)
(* timedelta(1) by +1.                                                     *)
(* Every line is non-empty (it carries its line end), so next_line[0] is   *)
(* always defined.  A call is modelled statement block by statement block: *)
(* pc names the block the running call executes next, and the outcome of a *)
(* finished call (value returned or exception raised) is kept in out.      *)
(***************************************************************************)
EXTENDS Integers, Sequences, FiniteSets, TLC

\* ---------------------------------------------------------------- bounds
MaxLines == 6
MaxDay == 5
MaxVec == 3
MaxStation == 2
MaxWidth == 4

\* ------------------------------------------------------- program constants
DateMin == 1
DateMax == MaxDay + 2

NoDict == [none |-> TRUE]
NoLine == [mark |-> "", ok |-> FALSE, val |-> NoDict, text |-> <<>>, idx |-> 0]
NoOut == [tag |-> "none", val |-> NoDict]
NoColumn == [dtype |-> "", raw |-> <<>>]
NoValue == [tag |-> "none", n |-> 0, s |-> <<>>]

\* ------------------------------------------------------------ reader kinds
HeadTailKinds == {"IFFChangesReader", "IFFXChangesReader", "IFFStationConnectionReader",
                  "IFFTimeZoneReader", "IFFTransportModeQuestionReader",
                  "IFFTransportAttributeQuestionReader"}
FlatKinds == {"IFFReader", "IFFCompanyReader"}
Kinds == HeadTailKinds \cup FlatKinds
         \cup {"IFFTimeTablesReader", "IFFSynonymReader", "IFFDeliveryReader", "IFFFootnoteReader"}

\* leading character required by the class's REGEXP (head pattern)
REGEXP(k) ==
    CASE k = "IFFReader" -> {"@"}
      [] k = "IFFCompanyReader" -> {"0"}
      [] k = "IFFDeliveryReader" -> {"@"}
      [] k = "IFFStationConnectionReader" -> {">"}
      [] OTHER -> {"#"}

\* leading characters tested by the tail loop of a head/tail reader; each of
\* them is also the leading character of the tail pattern
TailMarks(k) ==
    CASE k = "IFFStationConnectionReader" -> {"&"}
      [] k = "IFFTimeZoneReader" -> {"-", "+"}
      [] OTHER -> {"-"}

\* --------------------------------------------------------- file alphabets
\* the identification line "@..." with its first and last valid day
Days(k) == IF k \in {"IFFFootnoteReader", "IFFDeliveryReader"} THEN 1..MaxDay ELSE {1}

IdentLines(k) ==
    {[mark |-> "@", ok |-> b, val |-> [first_day |-> f, last_day |-> l], text |-> <<>>] :
        b \in BOOLEAN, f \in Days(k), l \in Days(k)}

\* leading characters of the lines of an IFFTimeTablesReader file
GroupMarks == <<"%", "-", "&", "*">>
StopMarks == {">", "+", ".", "<"}
TimeTableMarks == {"#", "%", "-", "&", "*", ">", "+", ".", "<", ";", "?"}

\* leading characters the IFFSynonymReader dispatches on
SynonymMarks == {"*", "&", "$", "#", "%", "+", "-", "."}

PayloadMarks(k) ==
    IF k \in HeadTailKinds THEN REGEXP(k) \cup TailMarks(k) \cup {"X"}
    ELSE IF k = "IFFTimeTablesReader" THEN TimeTableMarks \cup {"X"}
    ELSE IF k = "IFFSynonymReader" THEN SynonymMarks \cup {"X"}
    ELSE REGEXP(k) \cup {"X"}

\* the fields the pattern selected by leading character m captures; n is the
\* station name of a stop line (times are not distinguished)
Fields(k, m, n) ==
    IF k # "IFFTimeTablesReader" THEN [v |-> 1]
    ELSE CASE m = ">" -> [station_short_name |-> n, departure_time |-> 0]
           [] m = "<" -> [station_short_name |-> n, arrival_time |-> 0]
           [] m = "." -> [station_short_name |-> n, time |-> 0]
           [] m = "+" -> [station_short_name |-> n, arrival_time |-> 0, departure_time |-> 0]
           [] m = ";" -> [station_short_name |-> n]
           [] OTHER -> [v |-> 1]

\* station names of passing stops
Names(k) == IF ";" \in PayloadMarks(k) THEN 1..MaxStation ELSE {}

\* sequences over S of length at most n
RECURSIVE SeqUpTo(_, _)
SeqUpTo(S, n) ==
    IF n = 0 THEN {<<>>}
    ELSE LET T == SeqUpTo(S, n - 1) IN T \cup {Append(t, x) : t \in T, x \in S}

\* the day vectors of a footnote file: "0"/"1" characters, possibly followed
\* by blanks, and the line end
VectorTexts ==
    {v \o pad \o <<"\n">> : v \in SeqUpTo({"0", "1"}, MaxVec), pad \in {<<>>, <<" ">>}}

\* the characters of a line of a footnote file that is not a day vector
\* (a footnote number line reads "#00001")
OtherText(m) == <<m, "0", "1", "\n">>

VectorLines(k) ==
    IF k = "IFFFootnoteReader"
    THEN {[mark |-> t[1], ok |-> FALSE, val |-> [v |-> 1], text |-> t] : t \in VectorTexts}
    ELSE {}

PayloadLines(k) ==
    {[mark |-> m, ok |-> b, val |-> Fields(k, m, 1),
      text |-> IF k = "IFFFootnoteReader" THEN OtherText(m) ELSE <<>>] :
        m \in PayloadMarks(k) \ {"X"}, b \in BOOLEAN}
    \cup {[mark |-> ";", ok |-> TRUE, val |-> Fields(k, ";", n), text |-> <<>>] : n \in Names(k)}
    \cup {[mark |-> "X", ok |-> FALSE, val |-> [v |-> 1],
           text |-> IF k = "IFFFootnoteReader" THEN OtherText("X") ELSE <<>>]}
    \cup VectorLines(k)

\* lines that can stand at position i of the file of a reader of kind k
LinesAt(k, miss, i) ==
    IF i = 1 /\ ~miss THEN IdentLines(k) \cup {l \in PayloadLines(k) : ~l.ok}
    ELSE PayloadLines(k)

\* ------------------------------------------------------------ field engine
\* re.match(row_regexp, row): the pattern is given by its leading characters
Matches(row, row_regexp) == row.mark \in row_regexp /\ row.ok

\* the dictionary parse_row builds from a matching row
ParseRow(row) == row.val

\* a parsed row together with the line it was taken from
Parsed(row) == [d |-> ParseRow(row), src |-> row.idx]

\* --------------------------------------------------------------- cursor
\* A cursor value c bundles the source position and the pushback list:
\*   c.nread : lines handed out by _file so far, c.eof : _file is exhausted
\*   c.pb    : pushed_back
\*   c.deep  : a peek() was issued while pushed_back held a line
\* Each operation yields the set of its possible results
\*   [c |-> cursor after the call, line |-> line returned, stop |-> raised StopIteration]

FileNext(c, k, miss) ==
    (IF ~c.eof /\ c.nread < MaxLines
     THEN {[c |-> [c EXCEPT !.nread = @ + 1],
            line |-> [mark |-> l.mark, ok |-> l.ok, val |-> l.val, text |-> l.text,
                      idx |-> c.nread + 1],
            stop |-> FALSE] : l \in LinesAt(k, miss, c.nread + 1)}
     ELSE {})
    \cup {[c |-> [c EXCEPT !.eof = TRUE], line |-> NoLine, stop |-> TRUE]}

Peek(c, k, miss) ==
    LET d == [c EXCEPT !.deep = @ \/ c.pb # <<>>] IN
    {IF r.stop THEN r ELSE [r EXCEPT !.c.pb = Append(@, r.line)] : r \in FileNext(d, k, miss)}

\* the pushback list is ignored
NextLine_skip(c, k, miss) == FileNext(c, k, miss)

\* the pushed back line is handed out and kept
NextLine_keep(c, k, miss) ==
    IF c.pb # <<>>
    THEN {[c |-> c, line |-> c.pb[Len(c.pb)], stop |-> FALSE]}
    ELSE FileNext(c, k, miss)

NextLine(c, k, miss) ==
    IF c.pb # <<>>
    THEN {[c |-> [c EXCEPT !.pb = SubSeq(@, 1, Len(@) - 1)], line |-> c.pb[Len(c.pb)], stop |-> FALSE]}
    ELSE FileNext(c, k, miss)

\* ---------------------------------------------------------------- state
VARIABLES
    kind,          \* class of the reader
    missing,       \* identification_row_missing
    nread,         \* number of lines _file has handed out
    eof,           \* _file has raised StopIteration
    pushed_back,   \* self.pushed_back
    stacked,       \* a peek() was issued while pushed_back held a line
    delivery,      \* self.delivery
    start_date,    \* self.start_date
    end_date,      \* self.end_date
    can_return,    \* self.can_return of an IFFDeliveryReader
    date_range,    \* self.date_range of an IFFFootnoteReader
    loop_date,     \* loop_date of the DateIterator
    vector,        \* the day vector the last footnote was decoded from
    pc,            \* position of the running call
    rec,           \* record under assembly in __next__
    next_line,     \* local next_line of __next__
    stop,          \* local stop of IFFTimeTablesReader.__next__
    stop_index,    \* local stop_index
    last_stop_done, \* local last_stop_done
    passes,        \* passes through the body of the route loop, modulo 2
    call,          \* the call that completed last
    out,           \* what that call returned or raised
    ev,            \* what happened inside the running / last call
    column,        \* a captured column handed to the conversion of parse_row
    value          \* what the conversion made of it

vars == <<kind, missing, nread, eof, pushed_back, stacked, delivery, start_date, end_date,
          can_return, date_range, loop_date, vector,
          pc, rec, next_line, stop, stop_index, last_stop_done, passes, call, out, ev,
          column, value>>

locals == <<next_line, stop, stop_index, last_stop_done, passes>>
config == <<kind, missing, delivery, start_date, end_date, date_range, loop_date>>
cell == <<column, value>>

cursor == [nread |-> nread, eof |-> eof, pb |-> pushed_back, deep |-> stacked]

SetCursor(c) ==
    /\ nread' = c.nread
    /\ eof' = c.eof
    /\ pushed_back' = c.pb
    /\ stacked' = c.deep

Raise(exc) == [tag |-> exc, val |-> NoDict]
Return(tag, v) == [tag |-> tag, val |-> v]

Init ==
    /\ kind \in Kinds
    /\ missing \in BOOLEAN
    /\ nread = 0
    /\ eof = FALSE
    /\ pushed_back = <<>>
    /\ stacked = FALSE
    /\ delivery = NoDict
    /\ start_date = 0
    /\ end_date = 0
    /\ can_return = FALSE
    /\ date_range = <<>>
    /\ loop_date = 0
    /\ vector = <<>>
    /\ pc = "new"
    /\ rec = NoDict
    /\ next_line = NoLine
    /\ stop = NoDict
    /\ stop_index = 0
    /\ last_stop_done = FALSE
    /\ passes = 0
    /\ call = "none"
    /\ out = NoOut
    /\ ev = {}
    /\ column = NoColumn
    /\ value = NoValue

\* where __init__ continues after IFFReader.__init__ has returned
AfterBase(k) == IF k = "IFFFootnoteReader" THEN "date_init" ELSE "idle"

\* the identification row is read although it is said to be missing
ReadsIdentification_always(miss) == TRUE

\* if not identification_row_missing
ReadsIdentification(miss) == ~miss

\* IFFReader.__init__, entered through the __init__ of the reader's class
\* (IFFDeliveryReader.__init__ sets can_return first)
Construct ==
    /\ pc = "new"
    /\ call' = "__init__"
    /\ can_return' = (kind = "IFFDeliveryReader")
    /\ UNCHANGED <<kind, missing, cell, date_range, loop_date, vector, rec, locals, ev>>
    /\ IF ~ReadsIdentification(missing)
       THEN /\ pc' = AfterBase(kind)
            /\ out' = NoOut
            /\ UNCHANGED <<nread, eof, pushed_back, stacked, delivery, start_date, end_date>>
       ELSE \E r \in FileNext(cursor, kind, missing) :
            /\ SetCursor(r.c)
            /\ IF r.stop
               THEN /\ out' = Raise("IFFReaderException")
                    /\ pc' = "failed"
                    /\ UNCHANGED <<delivery, start_date, end_date>>
               ELSE IF ~Matches(r.line, REGEXP("IFFReader"))
               THEN /\ out' = Raise("IFFReaderRowTypeException")
                    /\ pc' = "failed"
                    /\ UNCHANGED <<delivery, start_date, end_date>>
               ELSE /\ delivery' = ParseRow(r.line)
                    /\ start_date' = ParseRow(r.line).first_day
                    /\ end_date' = ParseRow(r.line).last_day
                    /\ out' = NoOut
                    /\ pc' = AfterBase(kind)

\* a client calling peek() on the reader
CallPeek ==
    /\ pc = "idle"
    /\ kind = "IFFReader"
    /\ \E r \in Peek(cursor, kind, missing) :
        /\ SetCursor(r.c)
        /\ out' = IF r.stop THEN Raise("StopIteration") ELSE Return("line", r.line)
    /\ call' = "peek"
    /\ UNCHANGED <<config, cell, can_return, vector, pc, rec, locals, ev>>

\* a client calling next_line() on the reader
CallNextLine ==
    /\ pc = "idle"
    /\ kind = "IFFReader"
    /\ \E r \in NextLine(cursor, kind, missing) :
        /\ SetCursor(r.c)
        /\ out' = IF r.stop THEN Raise("StopIteration") ELSE Return("line", r.line)
    /\ call' = "next_line"
    /\ UNCHANGED <<config, cell, can_return, vector, pc, rec, locals, ev>>

\* the call ends: its locals die
Finish(result) ==
    /\ out' = result
    /\ pc' = "idle"
    /\ rec' = NoDict
    /\ next_line' = NoLine
    /\ stop' = NoDict
    /\ stop_index' = 0
    /\ last_stop_done' = FALSE
    /\ passes' = 0

\* IFFReader.__next__ (one pattern, one record per line)
FlatNext ==
    /\ pc = "idle"
    /\ kind \in FlatKinds
    /\ call' = "__next__"
    /\ UNCHANGED <<config, cell, can_return, vector>>
    /\ \E r \in NextLine(cursor, kind, missing) :
        /\ SetCursor(r.c)
        /\ IF r.stop
           THEN Finish(Raise("StopIteration")) /\ ev' = {}
           ELSE IF ~Matches(r.line, REGEXP(kind))
           THEN Finish(Raise("IFFReaderRowTypeException")) /\ ev' = {"mismatch"}
           ELSE Finish(Return("record", Parsed(r.line))) /\ ev' = {}

\* ------------------------------------------------- head/tail readers
\* row = self.next_line(); record = self.parse_row(row, self.REGEXP); record[list] = []
HeadNext ==
    /\ pc = "idle"
    /\ kind \in HeadTailKinds
    /\ call' = "__next__"
    /\ UNCHANGED <<config, cell, can_return, vector>>
    /\ \E r \in NextLine(cursor, kind, missing) :
        /\ SetCursor(r.c)
        /\ IF r.stop
           THEN Finish(Raise("StopIteration")) /\ ev' = {}
           ELSE IF ~Matches(r.line, REGEXP(kind))
           THEN Finish(Raise("IFFReaderRowTypeException")) /\ ev' = {"mismatch"}
           ELSE /\ rec' = [d |-> ParseRow(r.line), src |-> r.line.idx, group |-> <<>>]
                /\ pc' = "peek"
                /\ ev' = {}
                /\ UNCHANGED <<locals, out>>

\* next_line = self.peek(), outside any try block
HeadPeek ==
    /\ pc = "peek"
    /\ UNCHANGED <<config, cell, can_return, vector, call>>
    /\ \E r \in Peek(cursor, kind, missing) :
        /\ SetCursor(r.c)
        /\ IF r.stop
           THEN Finish(Raise("StopIteration")) /\ ev' = ev \cup {"probe_eof"}
           ELSE /\ next_line' = r.line
                /\ pc' = "tail"
                /\ UNCHANGED <<rec, stop, stop_index, last_stop_done, passes, out, ev>>

\* one test of the while condition and, when it holds, one pass of the body
TailLoop ==
    /\ pc = "tail"
    /\ UNCHANGED <<config, cell, can_return, vector, call>>
    /\ IF next_line.mark \notin TailMarks(kind)
       THEN /\ Finish(Return("record", rec))
            /\ UNCHANGED <<nread, eof, pushed_back, stacked, ev>>
       ELSE \E r \in NextLine(cursor, kind, missing) :
            IF r.stop
            THEN SetCursor(r.c) /\ Finish(Return("record", rec)) /\ UNCHANGED ev
            ELSE IF ~Matches(r.line, TailMarks(kind))
            THEN SetCursor(r.c) /\ Finish(Raise("IFFReaderRowTypeException"))
                 /\ ev' = ev \cup {"mismatch"}
            ELSE \E q \in Peek(r.c, kind, missing) :
                 /\ SetCursor(q.c)
                 /\ IF q.stop
                    THEN /\ Finish(Return("record", [rec EXCEPT !.group = Append(@, Parsed(r.line))]))
                         /\ ev' = ev \cup {"probe_eof"}
                    ELSE /\ rec' = [rec EXCEPT !.group = Append(@, Parsed(r.line))]
                         /\ next_line' = q.line
                         /\ UNCHANGED <<pc, stop, stop_index, last_stop_done, passes, out, ev>>

\* ------------------------------------------------ IFFTimeTablesReader
Groups == <<"numbers", "validities", "transport_modes", "attributes">>
GroupIndex(g) == CHOOSE i \in 1..4 : Groups[i] = g

\* the stop is put in front of the route
AppendStop_front(route, st) == <<st>> \o route

\* service["route"].append(stop)
AppendStop(route, st) == Append(route, st)

\* if not stop in service["route"]: service["route"].append(stop)
\* (dictionaries compare by content, not by the line they came from)
EnsureIncluded(route, st) ==
    IF \E i \in 1..Len(route) : route[i].d = st.d THEN route ELSE AppendStop(route, st)

\* the position counter is never advanced
NextStopIndex_stuck(i) == i

\* stop_index += 1
NextStopIndex(i) == i + 1

\* stop["platform"] = []; stop["stop_index"] = stop_index
\* fields is the dictionary parsed from the stop line, or none for stop = {}
NewStop(known, fields, i) ==
    IF known THEN fields @@ [platform |-> <<>>, stop_index |-> i]
    ELSE [platform |-> <<>>, stop_index |-> i]

\* the platform is attached twice
AttachPlatform_twice(st, row) ==
    [st EXCEPT !.d.platform = Append(Append(@, Parsed(row)), Parsed(row))]

\* platform = self.parse_row(row, self.PLATFORM_REGEXP); stop["platform"].append(platform)
AttachPlatform(st, row) == [st EXCEPT !.d.platform = Append(@, Parsed(row))]

\* stop = self.parse_row(row, self.PASSING_REGEXP)
PassingStop(row) == ParseRow(row)

\* what is remembered of the line a stop was made from: its leading character
\* when that is the marker of a stop or of a passing stop
Origin(m) == IF m \in StopMarks \cup {";"} THEN m ELSE "other"

\* the row taken as the stop number i + 1 of a route continues a route section
\* of the form start, interval or continuation stops, final stop
Regular(m, i) == IF i = 0 THEN m = ">" ELSE m \in {"+", ".", "<"}

\* the except StopIteration clause of the route loop
RouteExcept(st, done, seen) ==
    /\ rec' = [rec EXCEPT !.route = EnsureIncluded(@, st)]
    /\ stop' = st
    /\ last_stop_done' = done
    /\ pc' = "route"
    /\ ev' = ev \cup seen \cup (IF done THEN {} ELSE {"truncated"})
    /\ UNCHANGED <<next_line, out>>

\* row = self.next_line(); service = self.parse_row(row, self.REGEXP)
ServiceNext ==
    /\ pc = "idle"
    /\ kind = "IFFTimeTablesReader"
    /\ call' = "__next__"
    /\ UNCHANGED <<config, cell, can_return, vector>>
    /\ \E r \in NextLine(cursor, kind, missing) :
        /\ SetCursor(r.c)
        /\ IF r.stop
           THEN Finish(Raise("StopIteration")) /\ ev' = {}
           ELSE IF ~Matches(r.line, REGEXP(kind))
           THEN Finish(Raise("IFFReaderRowTypeException")) /\ ev' = {"mismatch"}
           ELSE /\ rec' = [d |-> ParseRow(r.line), src |-> r.line.idx,
                           numbers |-> <<>>, validities |-> <<>>, transport_modes |-> <<>>,
                           attributes |-> <<>>, route |-> <<>>]
                /\ pc' = "service_peek"
                /\ ev' = {}
                /\ UNCHANGED <<locals, out>>

\* service["numbers"] = []; next_line = self.peek()
ServicePeek ==
    /\ pc = "service_peek"
    /\ UNCHANGED <<config, cell, can_return, vector, call>>
    /\ \E r \in Peek(cursor, kind, missing) :
        /\ SetCursor(r.c)
        /\ IF r.stop
           THEN Finish(Raise("StopIteration")) /\ ev' = ev \cup {"probe_eof"}
           ELSE /\ next_line' = r.line
                /\ pc' = Groups[1]
                /\ UNCHANGED <<rec, stop, stop_index, last_stop_done, passes, out, ev>>

\* after the validities the numbers are scanned again
NextScan_again(g) == IF g = 2 THEN Groups[1] ELSE IF g < 4 THEN Groups[g + 1] ELSE "route"

\* the block that follows the while loop of group g
NextScan(g) == IF g < 4 THEN Groups[g + 1] ELSE "route"

\* the four while loops over "%", "-", "&", "*" lines: one test of the
\* condition of the loop pc names and, when it holds, one pass of its body
ServiceGroup ==
    /\ pc \in {Groups[i] : i \in 1..4}
    /\ UNCHANGED <<config, cell, can_return, vector, call>>
    /\ LET g == GroupIndex(pc) IN
       IF next_line.mark # GroupMarks[g]
       THEN /\ pc' = NextScan(g)
            /\ UNCHANGED <<nread, eof, pushed_back, stacked, rec, locals, out, ev>>
       ELSE \E r \in NextLine(cursor, kind, missing) :
            IF r.stop
            THEN SetCursor(r.c) /\ Finish(Raise("StopIteration")) /\ UNCHANGED ev
            ELSE IF ~Matches(r.line, {GroupMarks[g]})
            THEN SetCursor(r.c) /\ Finish(Raise("IFFReaderRowTypeException"))
                 /\ ev' = ev \cup {"mismatch"}
            ELSE \E q \in Peek(r.c, kind, missing) :
                 /\ SetCursor(q.c)
                 /\ IF q.stop
                    THEN Finish(Raise("StopIteration")) /\ ev' = ev \cup {"probe_eof"}
                    ELSE /\ rec' = [rec EXCEPT ![pc] = Append(@, Parsed(r.line))]
                         /\ next_line' = q.line
                         /\ UNCHANGED <<pc, stop, stop_index, last_stop_done, passes, out, ev>>

\* while not last_stop_done: row = self.next_line(); stop = {}; the dispatch on
\* next_line[0]; stop_index; next_line = self.peek()
RouteStop ==
    /\ pc = "route"
    /\ UNCHANGED <<config, cell, can_return, vector, call>>
    /\ IF last_stop_done
       THEN /\ Finish(Return("record", rec))
            /\ UNCHANGED <<nread, eof, pushed_back, stacked, ev>>
       ELSE \E r \in NextLine(cursor, kind, missing) :
            IF r.stop
            THEN /\ SetCursor(r.c)
                 /\ IF stop = NoDict
                    THEN Finish(Raise("UnboundLocalError")) /\ UNCHANGED ev
                    ELSE /\ RouteExcept(stop, last_stop_done, {})
                         /\ passes' = 1 - passes
                         /\ UNCHANGED stop_index
            ELSE LET m == next_line.mark
                     known == m \in StopMarks
                 IN
                 IF known /\ ~Matches(r.line, {m})
                 THEN SetCursor(r.c) /\ Finish(Raise("IFFReaderRowTypeException"))
                      /\ ev' = ev \cup {"mismatch"}
                 ELSE LET i == NextStopIndex(stop_index)
                          seen == (IF known THEN {} ELSE {"nomarker"})
                                  \cup (IF Regular(r.line.mark, stop_index) THEN {} ELSE {"irregular"})
                          st == [d |-> NewStop(known, ParseRow(r.line), i), src |-> r.line.idx,
                                 mark |-> Origin(r.line.mark)]
                          done == (m = "<")
                      IN
                      \E q \in Peek(r.c, kind, missing) :
                      /\ SetCursor(q.c)
                      /\ stop_index' = i
                      /\ passes' = 1 - passes
                      /\ IF q.stop
                         THEN /\ rec' = [rec EXCEPT !.route = EnsureIncluded(@, st)]
                              /\ stop' = st
                              /\ last_stop_done' = done
                              /\ pc' = "route"
                              /\ ev' = ev \cup seen \cup (IF done THEN {} ELSE {"truncated"})
                              /\ UNCHANGED <<next_line, out>>
                         ELSE /\ stop' = st
                              /\ last_stop_done' = done
                              /\ next_line' = q.line
                              /\ pc' = "platform"
                              /\ ev' = ev \cup seen
                              /\ UNCHANGED <<rec, out>>

\* if next_line[0] == "?": ...; service["route"].append(stop)
RoutePlatform ==
    /\ pc = "platform"
    /\ UNCHANGED <<config, cell, can_return, vector, call>>
    /\ IF next_line.mark # "?"
       THEN /\ rec' = [rec EXCEPT !.route = AppendStop(@, stop)]
            /\ pc' = "passing"
            /\ UNCHANGED <<nread, eof, pushed_back, stacked, next_line, stop, stop_index, last_stop_done,
                           passes, out, ev>>
       ELSE \E r \in NextLine(cursor, kind, missing) :
            IF r.stop
            THEN SetCursor(r.c) /\ RouteExcept(stop, last_stop_done, {})
                 /\ UNCHANGED <<stop_index, passes>>
            ELSE IF ~Matches(r.line, {"?"})
            THEN SetCursor(r.c) /\ Finish(Raise("IFFReaderRowTypeException"))
                 /\ ev' = ev \cup {"mismatch"}
            ELSE LET st == AttachPlatform(stop, r.line) IN
                 \E q \in Peek(r.c, kind, missing) :
                 /\ SetCursor(q.c)
                 /\ IF q.stop
                    THEN RouteExcept(st, last_stop_done, {"irregular"})
                         /\ UNCHANGED <<stop_index, passes>>
                    ELSE /\ rec' = [rec EXCEPT !.route = AppendStop(@, st)]
                         /\ stop' = st
                         /\ next_line' = q.line
                         /\ pc' = "passing"
                         /\ ev' = ev \cup {"irregular"}
                         /\ UNCHANGED <<stop_index, last_stop_done, passes, out>>

\* while next_line[0] == ";": one test of the condition and one pass of the body
RoutePassing ==
    /\ pc = "passing"
    /\ UNCHANGED <<config, cell, can_return, vector, call>>
    /\ IF next_line.mark # ";"
       THEN /\ pc' = "route"
            /\ UNCHANGED <<nread, eof, pushed_back, stacked, rec, next_line, stop, stop_index,
                           last_stop_done, passes, out, ev>>
       ELSE \E r \in NextLine(cursor, kind, missing) :
            IF r.stop
            THEN SetCursor(r.c) /\ RouteExcept(stop, last_stop_done, {})
                 /\ UNCHANGED <<stop_index, passes>>
            ELSE IF ~Matches(r.line, {";"})
            THEN SetCursor(r.c) /\ Finish(Raise("IFFReaderRowTypeException"))
                 /\ ev' = ev \cup {"mismatch"}
            ELSE LET st == [d |-> PassingStop(r.line), src |-> r.line.idx, mark |-> Origin(r.line.mark)] IN
                 \E q \in Peek(r.c, kind, missing) :
                 /\ SetCursor(q.c)
                 /\ IF q.stop
                    THEN RouteExcept(st, last_stop_done, {"irregular"})
                         /\ UNCHANGED <<stop_index, passes>>
                    ELSE /\ rec' = [rec EXCEPT !.route = AppendStop(@, st)]
                         /\ stop' = st
                         /\ next_line' = q.line
                         /\ ev' = ev \cup {"irregular"}
                         /\ UNCHANGED <<pc, stop_index, last_stop_done, passes, out>>

\* -------------------------------------------------- IFFSynonymReader
SynonymType(m) ==
    CASE m = "*" -> "transport_attribute"
      [] m = "&" -> "transport_mode"
      [] m = "$" -> "transport_attribute_question"
      [] m = "#" -> "transport_mode_question"
      [] m = "%" -> "connection_mode"
      [] m = "+" -> "station"
      [] m = "-" -> "group"
      [] m = "." -> "country"

\* IFFSynonymReader.__next__
SynonymNext ==
    /\ pc = "idle"
    /\ kind = "IFFSynonymReader"
    /\ call' = "__next__"
    /\ UNCHANGED <<config, cell, can_return, vector>>
    /\ \E r \in NextLine(cursor, kind, missing) :
        /\ SetCursor(r.c)
        /\ IF r.stop
           THEN Finish(Raise("StopIteration")) /\ ev' = {}
           ELSE IF r.line.mark \notin SynonymMarks
           THEN Finish(Raise("UnboundLocalError")) /\ ev' = {"nomarker"}
           ELSE IF ~Matches(r.line, {r.line.mark})
           THEN Finish(Raise("IFFReaderRowTypeException")) /\ ev' = {"mismatch"}
           ELSE /\ Finish(Return("record",
                        [d |-> ParseRow(r.line) @@ [synonym_type |-> SynonymType(r.line.mark)],
                         src |-> r.line.idx]))
                /\ ev' = {}

\* ------------------------------------------------- IFFDeliveryReader
\* IFFDeliveryReader.__next__; without an identification row the reader has
\* no attribute delivery
\* the flag is left as it was
AfterReturn_keep(c) == c

\* self.can_return = False
AfterReturn(c) == FALSE

DeliveryNext ==
    /\ pc = "idle"
    /\ kind = "IFFDeliveryReader"
    /\ call' = "__next__"
    /\ ev' = {}
    /\ UNCHANGED <<config, cell, nread, eof, pushed_back, stacked, vector>>
    /\ IF can_return
       THEN /\ can_return' = AfterReturn(can_return)
            /\ IF missing THEN Finish(Raise("AttributeError"))
               ELSE Finish(Return("record", delivery))
       ELSE /\ UNCHANGED can_return
            /\ Finish(Raise("StopIteration"))

\* ------------------------------------------------- IFFFootnoteReader
\* DateIterator.__init__: loop_date = self.start_date + timedelta(-1)
DateIteratorInit ==
    /\ pc = "date_init"
    /\ UNCHANGED <<kind, missing, cell, nread, eof, pushed_back, stacked, delivery, start_date, end_date,
                   can_return, date_range, vector, rec, locals, call, ev>>
    /\ IF missing
       THEN out' = Raise("AttributeError") /\ pc' = "failed" /\ UNCHANGED loop_date
       ELSE IF start_date - 1 < DateMin
       THEN out' = Raise("OverflowError") /\ pc' = "failed" /\ UNCHANGED loop_date
       ELSE loop_date' = start_date - 1 /\ pc' = "date_range" /\ UNCHANGED out

\* the iterator stops one day early
Exhausted_early(d, last) == d + 1 = last

\* if dself.loop_date == self.end_date: raise StopIteration
Exhausted(d, last) == d = last

\* DateIterator.__next__, and the list comprehension taking its result
DateIteratorNext ==
    /\ pc = "date_range"
    /\ UNCHANGED <<kind, missing, cell, nread, eof, pushed_back, stacked, delivery, start_date, end_date,
                   can_return, vector, rec, locals, call, ev>>
    /\ IF Exhausted(loop_date, end_date)
       THEN pc' = "idle" /\ UNCHANGED <<loop_date, date_range, out>>
       ELSE IF loop_date + 1 > DateMax
       THEN out' = Raise("OverflowError") /\ pc' = "failed" /\ UNCHANGED <<loop_date, date_range>>
       ELSE /\ loop_date' = loop_date + 1
            /\ date_range' = Append(date_range, loop_date + 1)
            /\ UNCHANGED <<pc, out>>

Whitespace == {" ", "\n"}

\* str.strip()
RECURSIVE Strip(_)
Strip(t) ==
    IF t = <<>> THEN t
    ELSE IF t[1] \in Whitespace THEN Strip(Tail(t))
    ELSE IF t[Len(t)] \in Whitespace THEN Strip(SubSeq(t, 1, Len(t) - 1))
    ELSE t

\* t.replace(ch, "")
Remove(t, ch) == SelectSeq(t, LAMBDA c : c # ch)

\* ties classified as only
IsOnly_tie(v) == Len(Remove(v, "1")) >= Len(Remove(v, "0"))

\* the comparison the other way round
IsOnly_swapped(v) == Len(Remove(v, "0")) > Len(Remove(v, "1"))

\* len(vector.replace("1", "")) > len(vector.replace("0", ""))
IsOnly(v) == Len(Remove(v, "1")) > Len(Remove(v, "0"))

\* [d for (d, v) in zip(dates, v) if v == ch]
RECURSIVE Pick(_, _, _)
Pick(dates, v, ch) ==
    IF dates = <<>> \/ v = <<>> THEN <<>>
    ELSE (IF v[1] = ch THEN <<dates[1]>> ELSE <<>>) \o Pick(Tail(dates), Tail(v), ch)

\* the footnote dictionary built from the parsed number row and the vector
Footnote(fields, dates, v) ==
    IF IsOnly(v)
    THEN fields @@ [type |-> "only", included |-> Pick(dates, v, "1")]
    ELSE fields @@ [type |-> "except", excluded |-> Pick(dates, v, "0")]

\* IFFFootnoteReader.__next__
FootnoteNext ==
    /\ pc = "idle"
    /\ kind = "IFFFootnoteReader"
    /\ call' = "__next__"
    /\ UNCHANGED <<config, cell, can_return>>
    /\ \E r \in NextLine(cursor, kind, missing) :
        IF r.stop
        THEN SetCursor(r.c) /\ Finish(Raise("StopIteration")) /\ ev' = {} /\ vector' = <<>>
        ELSE IF ~Matches(r.line, REGEXP(kind))
        THEN SetCursor(r.c) /\ Finish(Raise("IFFReaderRowTypeException"))
             /\ ev' = {"mismatch"} /\ vector' = <<>>
        ELSE \E q \in NextLine(r.c, kind, missing) :
             /\ SetCursor(q.c)
             /\ ev' = {}
             /\ IF q.stop
                THEN Finish(Raise("StopIteration")) /\ vector' = <<>>
                ELSE /\ vector' = Strip(q.line.text)
                     /\ Finish(Return("record",
                            [d |-> Footnote(ParseRow(r.line), date_range, Strip(q.line.text)),
                             src |-> r.line.idx]))

\* ------------------------------------------- conversion of a column
\* parse_row converts every captured column by the suffix of its group name.
\* A column is its characters; the result is an integer (tag "int", n), a
\* string (tag "str", s), a duration (tag "timedelta", n minutes), a date
\* (tag "date", n its day ordinal) or a raised ValueError.
Digits == <<"0", "1", "2", "3", "4", "5", "6", "7", "8", "9">>
IsDigit(ch) == \E i \in 1..10 : Digits[i] = ch
DigitVal(ch) == (CHOOSE i \in 1..10 : Digits[i] = ch) - 1

IntVal(n) == [tag |-> "int", n |-> n, s |-> <<>>]
StrVal(s) == [tag |-> "str", n |-> 0, s |-> s]
TimeVal(n) == [tag |-> "timedelta", n |-> n, s |-> <<>>]
DateVal(n) == [tag |-> "date", n |-> n, s |-> <<>>]
ValueError == [tag |-> "ValueError", n |-> 0, s |-> <<>>]

\* the value of a non-empty string of digits
RECURSIVE Decimal(_)
Decimal(s) ==
    IF s = <<>> THEN 0 ELSE 10 * Decimal(SubSeq(s, 1, Len(s) - 1)) + DigitVal(s[Len(s)])

\* int(s): surrounding blanks and one sign are accepted, then digits only
int(s) ==
    LET t == Strip(s)
        signed == t # <<>> /\ t[1] \in {"-", "+"}
        body == IF signed THEN Tail(t) ELSE t
    IN
    IF body = <<>> \/ \E i \in 1..Len(body) : ~IsDigit(body[i]) THEN ValueError
    ELSE IntVal(IF signed /\ t[1] = "-" THEN 0 - Decimal(body) ELSE Decimal(body))

\* the hours are reduced to the hour of the day
timedelta_wrapped(hours, minutes) == 60 * (hours % 24) + minutes

\* timedelta(hours=hours, minutes=minutes), in minutes
timedelta(hours, minutes) == 60 * hours + minutes

\* s[a-1:b] of a Python string
Slice(s, a, b) == SubSeq(s, a, IF b < Len(s) THEN b ELSE Len(s))

\* the proleptic Gregorian calendar of datetime.date
IsLeap(y) == y % 4 = 0 /\ (y % 100 # 0 \/ y % 400 = 0)
DaysInMonth(y, m) ==
    IF m = 2 THEN (IF IsLeap(y) THEN 29 ELSE 28)
    ELSE IF m \in {4, 6, 9, 11} THEN 30 ELSE 31

RECURSIVE DaysBeforeMonth(_, _)
DaysBeforeMonth(y, m) ==
    IF m = 1 THEN 0 ELSE DaysBeforeMonth(y, m - 1) + DaysInMonth(y, m - 1)

\* date(y, m, d).toordinal()
ToOrdinal(y, m, d) ==
    365 * (y - 1) + ((y - 1) \div 4) - ((y - 1) \div 100) + ((y - 1) \div 400)
    + DaysBeforeMonth(y, m) + d

\* IFFReader.date
date(v) ==
    LET y == int(Slice(v, 5, 8))
        m == int(Slice(v, 3, 4))
        d == int(Slice(v, 1, 2))
    IN
    IF y.tag # "int" \/ m.tag # "int" \/ d.tag # "int" THEN ValueError
    ELSE IF y.n \notin 1..9999 \/ m.n \notin 1..12 THEN ValueError
    ELSE IF d.n \notin 1..DaysInMonth(y.n, m.n) THEN ValueError
    ELSE DateVal(ToOrdinal(y.n, m.n, d.n))

\* IFFReader.time
time(v) ==
    LET hours == int(Slice(v, 1, 2))
        minutes == int(Slice(v, 3, 4))
    IN
    IF hours.tag # "int" \/ minutes.tag # "int" THEN ValueError
    ELSE TimeVal(timedelta(hours.n, minutes.n))

\* the wildcard is not recognised
IsWildcard_never(dtype, s) == FALSE

\* data_type == "intw" and string_value == "*"
IsWildcard(dtype, s) == dtype = "intw" /\ s = <<"*">>

\* the body of the loop over the captured groups in parse_row
ParseValue(dtype, raw) ==
    LET string_value == Strip(raw) IN
    CASE dtype \in {"str", "strw"} -> StrVal(string_value)
      [] dtype \in {"int", "intw"} ->
            IF string_value = <<>> THEN IntVal(0)
            ELSE IF IsWildcard(dtype, string_value) THEN StrVal(string_value)
            ELSE int(string_value)
      [] dtype = "date" -> date(string_value)
      [] dtype = "time" -> time(string_value)
      [] OTHER -> ValueError

\* the suffixes of group names tried ("float" has no branch in parse_row) and
\* the characters a column is made of
DataTypes == {"str", "strw", "int", "intw", "date", "time", "float"}
ColumnChars == {" ", "*", "-", "0", "1", "2", "5", "9"}
Columns == {[dtype |-> t, raw |-> w] : t \in DataTypes, w \in SeqUpTo(ColumnChars, MaxWidth)}

\* parse_row applied to one column, no reader involved
FieldInit ==
    /\ kind = "IFFReader"
    /\ missing = TRUE
    /\ nread = 0
    /\ eof = FALSE
    /\ pushed_back = <<>>
    /\ stacked = FALSE
    /\ delivery = NoDict
    /\ start_date = 0
    /\ end_date = 0
    /\ can_return = FALSE
    /\ date_range = <<>>
    /\ loop_date = 0
    /\ vector = <<>>
    /\ pc = "field"
    /\ rec = NoDict
    /\ next_line = NoLine
    /\ stop = NoDict
    /\ stop_index = 0
    /\ last_stop_done = FALSE
    /\ passes = 0
    /\ call = "none"
    /\ out = NoOut
    /\ ev = {}
    /\ column \in Columns
    /\ value = NoValue

ParseField ==
    /\ pc = "field"
    /\ value' = ParseValue(column.dtype, column.raw)
    /\ pc' = "converted"
    /\ call' = "parse_row"
    /\ UNCHANGED <<config, column, nread, eof, pushed_back, stacked, can_return, vector,
                   rec, locals, out, ev>>

FieldNext == ParseField

FieldSpec == FieldInit /\ [][FieldNext]_vars

Next ==
    \/ Construct
    \/ CallPeek
    \/ CallNextLine
    \/ FlatNext
    \/ HeadNext
    \/ HeadPeek
    \/ TailLoop
    \/ ServiceNext
    \/ ServicePeek
    \/ ServiceGroup
    \/ RouteStop
    \/ RoutePlatform
    \/ RoutePassing
    \/ SynonymNext
    \/ DeliveryNext
    \/ DateIteratorInit
    \/ DateIteratorNext
    \/ FootnoteNext

Spec == Init /\ [][Next]_vars

\* a started call keeps running: the interpreter executes the next statement
FairSpec == Spec /\ WF_vars(Next)

\* ------------------------------------------------------------ properties
Returned == pc = "idle" /\ call = "__next__" /\ out.tag = "record"

\* C1: when the input is exhausted while a grouping grammar probes for a
\* further group member after the head line was read, the pull returns the
\* head record and neither raises nor signals end-of-input.
C1_ProbeAtEndReturnsRecord ==
    (pc = "idle" /\ call = "__next__" /\ "probe_eof" \in ev) => out.tag = "record"

InPull == pc \notin {"new", "idle", "failed", "date_init", "date_range"}

\* C2: every pull on a finite input terminates: it returns a record, raises
\* an error or signals end-of-input.
C2_PullTerminates == InPull ~> (pc = "idle")

\* C3: when the input ends inside the route section before a stop with the
\* final marker was read, the pull returns the service record, its route
\* ending with the stop that was being assembled, present exactly once.
C3_TruncatedRouteReturned ==
    ("truncated" \in ev /\ pc = "route")
        ~> (/\ Returned
            /\ "truncated" \in ev
            /\ LET route == out.val.route IN
               /\ route # <<>>
               /\ \A i \in 1..(Len(route) - 1) : route[i].d # route[Len(route)].d)

\* C4: consecutive peek calls return the same line and pull no further line
\* from the source, and the next_line call that follows a peek returns the
\* peeked line.
C4_PeekIdempotent ==
    [][/\ (call = "peek" /\ out.tag = "line" /\ call' = "peek")
            => (out' = out /\ nread' = nread)
       /\ (call = "peek" /\ out.tag = "line" /\ call' = "next_line")
            => (out'.tag = "line" /\ out'.val = out.val)]_vars

ServiceReturned == Returned /\ kind = "IFFTimeTablesReader"

HasPosition(st) == "stop_index" \in DOMAIN st.d
IsPassing(st) == DOMAIN st.d = {"station_short_name"}

FootnoteReturned == Returned /\ kind = "IFFFootnoteReader"

Positions(ch) == {i \in 1..Len(vector) : vector[i] = ch}
DatesAt(I) == {date_range[i] : i \in I}
Elements(q) == {q[i] : i \in 1..Len(q)}

\* C6: for a vector of "0"/"1" characters no longer than the date sequence of
\* the window: with strictly fewer "1" than "0" the footnote is of type only
\* and stores exactly the dates at the "1" positions; otherwise, ties
\* included, it is of type except and stores exactly the dates at the "0"
\* positions; the stored set is never larger than the complementary one.
C6_FootnoteClassification ==
    (/\ FootnoteReturned
     /\ Elements(vector) \subseteq {"0", "1"}
     /\ Len(vector) <= Len(date_range))
    => LET ones == Positions("1")
           zeros == Positions("0")
           f == out.val.d
       IN IF Cardinality(ones) < Cardinality(zeros)
          THEN /\ f.type = "only"
               /\ Elements(f.included) = DatesAt(ones)
               /\ Len(f.included) = Cardinality(ones)
               /\ Len(f.included) <= Cardinality(zeros)
          ELSE /\ f.type = "except"
               /\ Elements(f.excluded) = DatesAt(zeros)
               /\ Len(f.excluded) = Cardinality(zeros)
               /\ Len(f.excluded) <= Cardinality(ones)

C6_Witness ==
    /\ FootnoteReturned
    /\ Len(vector) = Len(date_range)
    /\ Len(vector) = 3
    /\ out.val.d.type = "only"
    /\ Len(out.val.d.included) = 1

Vector101 == FootnoteReturned /\ vector = <<"1", "0", "1">> /\ Len(date_range) >= 3

\* C7 as stated: the vector "101" over a 3-day window gives type only with
\* included = {day 1, day 3}.
C7_Vector101Only ==
    Vector101 => (/\ out.val.d.type = "only"
                  /\ out.val.d.included = <<date_range[1], date_range[3]>>)

\* C7 as amended: the vector "101" over a 3-day window gives type except
\* with excluded = {day 2}.
C7_Vector101Except ==
    Vector101 => (/\ out.val.d.type = "except"
                  /\ out.val.d.excluded = <<date_range[2]>>)

C7_Witness == Vector101 /\ Len(date_range) = 3

DateRangeBuilt == kind = "IFFFootnoteReader" /\ pc = "idle"

\* C8 as stated: the date sequence is start_date, ..., end_date - 1 (half-open
\* window): its i-th element is start_date + i - 1 and it has
\* end_date - start_date elements.
C8_HalfOpenWindow ==
    DateRangeBuilt =>
        /\ Len(date_range) = end_date - start_date
        /\ \A i \in 1..Len(date_range) : date_range[i] = start_date + i - 1
        /\ end_date \notin Elements(date_range)

\* C8 as amended: the date sequence is start_date, ..., end_date (closed
\* window, end_date is its last member): its i-th element is
\* start_date + i - 1 and it has end_date - start_date + 1 elements.
C8_ClosedWindow ==
    /\ \A i \in 1..Len(date_range) : date_range[i] = start_date + i - 1
    /\ DateRangeBuilt =>
        /\ Len(date_range) = end_date - start_date + 1
        /\ Elements(date_range) = {d \in DateMin..DateMax : start_date <= d /\ d <= end_date}

C8_Witness == DateRangeBuilt /\ Len(date_range) >= 2 /\ date_range[Len(date_range)] = end_date

\* C9: a pull that consumes a line not conforming to the pattern its grammar
\* selects for it, or a line whose leading character selects no pattern,
\* raises the row-shape-mismatch error.
C9_MismatchRaises ==
    (pc = "idle" /\ call = "__next__" /\ ev \cap {"mismatch", "nomarker"} # {})
        => out.tag = "IFFReaderRowTypeException"

DeliveryReader == kind = "IFFDeliveryReader" /\ ~missing /\ pc = "idle"

\* C10: on a delivery reader the first pull returns the identification record
\* parsed at construction and every later pull signals end-of-input.
C10_DeliveryOnce ==
    /\ [](DeliveryReader => (can_return <=> call = "__init__"))
    /\ [][(DeliveryReader /\ call' = "__next__")
            => IF call = "__init__"
               THEN out' = Return("record", delivery)
               ELSE out' = Raise("StopIteration")]_vars

C10_Witness ==
    DeliveryReader /\ call = "__next__" /\ out.tag = "StopIteration" /\ ~can_return

\* a running call always has a next statement to execute
Progress == (pc \notin {"new", "idle", "failed"}) => ENABLED <<Next>>_vars

\* C11: in default mode, constructing a reader on an empty input fails with
\* the missing-identification error; on a non-empty input construction
\* consumes exactly the first line, the validity window is stored before any
\* record can be pulled, and the first line is never returned as a payload
\* record; in identification-absent mode construction consumes no line.
C11_Construction ==
    /\ (call = "__init__" /\ missing) => (nread = 0 /\ ~eof /\ pushed_back = <<>>)
    /\ (call = "__init__" /\ ~missing /\ eof) =>
            (nread = 0 /\ pc = "failed" /\ out.tag = "IFFReaderException")
    /\ (call = "__init__" /\ ~missing /\ ~eof) => (nread = 1 /\ pushed_back = <<>>)
    /\ (pc = "idle" /\ ~missing) =>
            /\ delivery # NoDict
            /\ start_date = delivery.first_day
            /\ end_date = delivery.last_day
    /\ ~missing => \A i \in 1..Len(pushed_back) : pushed_back[i].idx > 1
    /\ (Returned /\ ~missing /\ kind # "IFFDeliveryReader") => out.val.src > 1

C11_Witness ==
    /\ Returned /\ ~missing /\ kind = "IFFFootnoteReader"
    /\ out.val.src = 2
    /\ start_date < end_date

\* C12: in a head/tail reader a head line followed by a line whose marker is
\* outside the tail-marker set yields a record with an empty group list and no
\* error; the non-matching line stays buffered and is the first line the next
\* pull consumes, so that the records of consecutive pulls are made of
\* consecutive input lines, none skipped and none taken twice.
C12_HeadTailPartition ==
    /\ [](  (kind \in HeadTailKinds /\ Returned) =>
            /\ \A i \in 1..Len(out.val.group) : out.val.group[i].src = out.val.src + i
            /\ Len(pushed_back) <= 1
            /\ pushed_back # <<>> =>
                    /\ pushed_back[1].idx = out.val.src + Len(out.val.group) + 1
                    /\ pushed_back[1].idx = nread
                    /\ pushed_back[1].mark \notin TailMarks(kind)
            /\ pushed_back = <<>> => (eof /\ nread = out.val.src + Len(out.val.group)))
    /\ [][  /\ (kind \in HeadTailKinds /\ pc = "tail" /\ next_line.mark \notin TailMarks(kind)) =>
                    /\ pc' = "idle"
                    /\ out' = Return("record", rec)
                    /\ pushed_back = <<next_line>>
                    /\ pushed_back' = pushed_back
            /\ (kind \in HeadTailKinds /\ pc = "idle" /\ pushed_back # <<>>) =>
                    /\ pushed_back' = <<>>
                    /\ nread' = nread
                    /\ pc' = "peek" => rec'.src = pushed_back[1].idx
         ]_vars

C12_Witness ==
    /\ kind \in HeadTailKinds /\ pc = "peek"
    /\ out.tag = "record" /\ out.val.group = <<>>
    /\ rec.src = out.val.src + 1
    /\ nread = rec.src /\ pushed_back = <<>>

\* number of lines the pull consumed after the head line and the group lines
RouteLinesTaken ==
    (nread - Len(pushed_back))
    - (out.val.src + Len(out.val.numbers) + Len(out.val.validities)
       + Len(out.val.transport_modes) + Len(out.val.attributes))

\* C13: for a service whose route section is a start stop, then k >= 0
\* interval or continuation stops, then a final stop, the returned route has
\* exactly k+2 stops, in input order, with positions 1..k+2, the final stop is
\* the last element, and the line after the final stop is looked at but not
\* consumed.
C13_RegularRoute ==
    (ServiceReturned /\ "irregular" \notin ev) =>
        LET route == out.val.route
            n == Len(route)
        IN
        /\ n >= 2
        /\ n = RouteLinesTaken
        /\ \A i \in 1..n :
            /\ route[i].d.stop_index = i
            /\ route[i].src = route[1].src + i - 1
        /\ route[1].mark = ">"
        /\ route[n].mark = "<"
        /\ \A i \in 2..(n - 1) : route[i].mark \in {"+", "."}
        /\ Len(pushed_back) <= 1
        /\ pushed_back # <<>> => (pushed_back[1].idx = route[n].src + 1 /\ pushed_back[1].idx = nread)

C13_Witness ==
    /\ ServiceReturned /\ "irregular" \notin ev
    /\ Len(out.val.route) = 4
    /\ pushed_back # <<>> /\ pushed_back[1].mark = "#"

Converted == pc = "converted"

FourDigits(w) == Len(w) = 4 /\ \A i \in 1..4 : IsDigit(w[i])

\* C14: a time column HHMM is decoded to the duration of HH*60+MM minutes,
\* without reduction modulo 24 hours: a column with HH >= 24 gives a duration
\* of at least 1440 minutes.
C14_TimeNotWrapped ==
    (Converted /\ column.dtype = "time" /\ FourDigits(column.raw)) =>
        LET w == column.raw
            hh == 10 * DigitVal(w[1]) + DigitVal(w[2])
            mm == 10 * DigitVal(w[3]) + DigitVal(w[4])
        IN
        /\ value = TimeVal(hh * 60 + mm)
        /\ hh >= 24 => value.n >= 1440

C14_Witness ==
    /\ Converted /\ column.dtype = "time"
    /\ column.raw = <<"2", "5", "1", "0">>
    /\ value.tag = "timedelta" /\ value.n = 1510

\* the value of a string of digits, most significant digit first
RECURSIVE Horner(_, _)
Horner(s, acc) == IF s = <<>> THEN acc ELSE Horner(Tail(s), 10 * acc + DigitVal(s[1]))

\* C15: an all-blank column of type int or intw is decoded to 0 and raises
\* nothing; a column holding "*" of type intw is decoded to the marker itself;
\* a column holding digits is decoded to their decimal value.
C15_IntegerColumns ==
    (Converted /\ column.dtype \in {"int", "intw"}) =>
        LET w == column.raw
            core == Strip(w)
        IN
        /\ (\A i \in 1..Len(w) : w[i] = " ") => value = IntVal(0)
        /\ (column.dtype = "intw" /\ core = <<"*">>) => value = StrVal(<<"*">>)
        /\ (core # <<>> /\ \A i \in 1..Len(core) : IsDigit(core[i])) =>
                value = IntVal(Horner(core, 0))

C15_Witness ==
    /\ Converted /\ column.dtype = "intw"
    /\ column.raw = <<"*", " ", " ">>
    /\ value = StrVal(<<"*">>)

\* C16: while records are pulled from a grammar reader (flat, head/tail,
\* synonym, footnote, service; the reader whose client also calls peek() and
\* next_line() itself is left aside), the pushback list never holds more than
\* one line and no peek is issued while it holds one.
C16_OneLineLookahead ==
    kind # "IFFReader" => (Len(pushed_back) <= 1 /\ ~stacked)

C16_Witness ==
    /\ ServiceReturned
    /\ Len(out.val.route) >= 2 /\ Len(out.val.numbers) >= 1
    /\ Len(pushed_back) = 1 /\ ~stacked

\* the order of the blocks of IFFTimeTablesReader.__next__
Rank(p) ==
    CASE p = "service_peek" -> 0
      [] p = "numbers" -> 1
      [] p = "validities" -> 2
      [] p = "transport_modes" -> 3
      [] p = "attributes" -> 4
      [] OTHER -> 5

\* C17: in a service pull the four optional groups are scanned once each in
\* the order "%", "-", "&", "*": the pull never goes back to an earlier scan,
\* and a group's list grows only during its own scan, by a line carrying its
\* marker; a line with that marker met later is not appended to it.
C17_GroupsScannedOnce ==
    [][ (kind = "IFFTimeTablesReader" /\ pc \notin {"new", "idle", "failed"} /\ pc' # "idle") =>
            /\ Rank(pc) <= Rank(pc')
            /\ \A i \in 1..4 :
                rec'[Groups[i]] # rec[Groups[i]] =>
                    /\ pc = Groups[i]
                    /\ next_line.mark = GroupMarks[i]
                    /\ Len(rec'[Groups[i]]) = Len(rec[Groups[i]]) + 1
      ]_vars

C17_Witness ==
    /\ kind = "IFFTimeTablesReader" /\ pc = "route" /\ ~last_stop_done
    /\ next_line.mark = "%"
    /\ rec.numbers # <<>> /\ rec.validities # <<>>

\* C18: in every service record returned the first stop of the route was
\* parsed from a line carrying the start marker ">", and no stop parsed from a
\* final-marker "<" line is followed by another stop; a route section opening
\* with any other line produces no returned service.
C18_RouteStartsAndEnds ==
    ServiceReturned =>
        LET route == out.val.route IN
        /\ route # <<>>
        /\ route[1].mark = ">"
        /\ \A i \in 1..(Len(route) - 1) : route[i].mark # "<"

C20_EnumerationStops ==
    (kind = "IFFFootnoteReader" /\ pc = "date_range") ~> (pc = "idle")

====
